---- MODULE Spec2Model ----
(***************************************************************************)
(* Model of the Florida-statute RAG tooling:                               *)
(*   scripts/embed-statutes.py          embed_chunks and the SQLite Store  *)
(*   scripts/chunk-statutes-structured.py   chunk_statutes                 *)
(* Indices are 0-based as in the Python source.                            *)
(***************************************************************************)
EXTENDS Integers, Sequences, FiniteSets, Bags, TLC

\* ------------------------------------------------------------- bounds
MaxChunks == 3
MaxBatch == 2
MaxInterval == 2
MaxRuns == 2
MaxBlocks == 2

\* ------------------------------------------------------------- values
NULL == "NULL"
VEC == "vec"

Min(a, b) == IF a < b THEN a ELSE b

SetMax(S) == CHOOSE x \in S : \A y \in S : y <= x

\* range(lo, hi) of consecutive integers as a sequence
Range(lo, hi) == [k \in 1..(IF hi > lo THEN hi - lo ELSE 0) |-> lo + k - 1]

VARIABLES
    \* ---- embed_chunks: arguments
    total_chunks, batch_size, commit_interval, resume, skip_embeddings,
    \* ---- the Store: the connection's view and the committed file
    conn, disk,
    \* ---- embed_chunks: locals and position
    pc, start_index, batch_start, i, batch_embeddings, embedded_count,
    \* ---- observation of one run
    requests, inserted, probe, embedded_at_start, healthy, crashes, runs,
    \* ---- chunk_statutes
    blocks, block_id, stats, seen_sections, chunks, cpc,
    \* ---- one call of a pure function: its argument and what it returned
    arg, ret

embedVars == <<total_chunks, batch_size, commit_interval, resume, skip_embeddings,
               conn, disk, pc, start_index, batch_start, i, batch_embeddings,
               embedded_count, requests, inserted, probe, embedded_at_start,
               healthy, crashes, runs>>

chunkVars == <<blocks, block_id, stats, seen_sections, chunks, cpc>>

callVars == <<arg, ret>>

vars == <<embedVars, chunkVars, callVars>>

\* =====================================================================
\* The Store (create_database): table chunks and the external-content
\* FTS5 index chunks_fts, kept by the triggers chunks_ai and chunks_ad.
\* A row is [rowid, id, embedding]; an index entry is [rowid, id]; the
\* index is a bag, since the same entry can be indexed more than once.
\* =====================================================================
EmptyDb == [rows |-> {}, fts |-> EmptyBag]

FtsEntry(r) == [rowid |-> r.rowid, id |-> r.id]

\* SQLite picks max(rowid)+1 before conflict resolution removes anything
NewRowid(db) == IF db.rows = {} THEN 1 ELSE SetMax({r.rowid : r \in db.rows}) + 1

\* trigger chunks_ai: AFTER INSERT ON chunks
chunks_ai(fts, new) == fts (+) SetToBag({FtsEntry(new)})

\* trigger chunks_ad: AFTER DELETE ON chunks
chunks_ad(fts, old) == fts (-) SetToBag({FtsEntry(r) : r \in old})

\* variant that keeps the row of an id already stored and overwrites its
\* embedding column only when the new one is not null
UpdateInPlace(db, id, embedding) ==
    IF \E r \in db.rows : r.id = id
    THEN [db EXCEPT !.rows = {IF r.id = id /\ embedding # NULL
                              THEN [r EXCEPT !.embedding = embedding] ELSE r : r \in db.rows}]
    ELSE LET new == [rowid |-> NewRowid(db), id |-> id, embedding |-> embedding]
         IN  [rows |-> db.rows \cup {new}, fts |-> chunks_ai(db.fts, new)]

\* INSERT OR REPLACE INTO chunks: the row holding the same id is removed by
\* REPLACE conflict resolution, which fires no delete trigger (the script
\* never enables recursive_triggers); the insert trigger then fires.
InsertOrReplace(db, id, embedding) ==
    LET new == [rowid |-> NewRowid(db), id |-> id, embedding |-> embedding]
    IN  [rows |-> {r \in db.rows : r.id # id} \cup {new},
         fts  |-> chunks_ai(db.fts, new)]

\* DELETE FROM chunks: chunks_ad fires for every row
DeleteFromChunks(db) == [rows |-> {}, fts |-> chunks_ad(db.fts, db.rows)]

\* DELETE FROM chunks_fts: an external-content table scans the content
\* table for the rows to delete
DeleteFromChunksFts(db) == [db EXCEPT !.fts = chunks_ad(db.fts, db.rows)]

CountAll(db) == Cardinality(db.rows)

CountEmbedded(db) == Cardinality({r \in db.rows : r.embedding # NULL})

EmbeddedIds(db) == {r.id : r \in {x \in db.rows : x.embedding # NULL}}

EmbeddingOf(db, id) ==
    IF \E r \in db.rows : r.id = id
    THEN (CHOOSE r \in db.rows : r.id = id).embedding
    ELSE "absent"

\* the id of input record idx (the input's ids are pairwise distinct)
ChunkId(idx) == idx

\* =====================================================================
\* get_ollama_embeddings_batch
\* =====================================================================
\* What one HTTP request can come back with. "ok" carries n embeddings.
Responses(len) ==
    {[kind |-> "ok", n |-> k] : k \in 0..len}
    \cup {[kind |-> k, n |-> 0] : k \in {"url_error", "invalid_json", "no_key"}}

\* variant that lets json.JSONDecodeError escape
CaughtBatchUrlOnly(kind) == kind = "url_error"

\* the except clauses of the function
CaughtBatch(kind) == kind \in {"url_error", "invalid_json"}

Raises(kind) == kind \in {"url_error", "invalid_json"}

\* what one request adds to all_embeddings
BatchResult(resp, len) ==
    IF resp.kind = "ok"
    THEN [k \in 1..resp.n |-> VEC]
    ELSE [k \in 1..len |-> NULL]

\* how a request went, as the run's observer records it
Outcome(resp, len) ==
    IF resp.kind # "ok" THEN "failed" ELSE IF resp.n < len THEN "short" ELSE "ok"

NumRequests(len, bs) == (len + bs - 1) \div bs

\* texts: the sequence of input indices whose text is sent; resps: one
\* response per request. Yields the requests made and all_embeddings.
RECURSIVE EmbedFrom(_, _, _, _)
EmbedFrom(texts, bs, resps, batch_idx) ==
    IF batch_idx >= Len(texts)
    THEN [requests |-> <<>>, all_embeddings |-> <<>>, raised |-> FALSE]
    ELSE LET batch == SubSeq(texts, batch_idx + 1, Min(batch_idx + bs, Len(texts)))
             resp  == resps[batch_idx \div bs + 1]
             req   == [texts |-> batch, outcome |-> Outcome(resp, Len(batch))]
         IN  IF Raises(resp.kind) /\ ~CaughtBatch(resp.kind)
             THEN [requests |-> <<req>>, all_embeddings |-> <<>>, raised |-> TRUE]
             ELSE LET rest == EmbedFrom(texts, bs, resps, batch_idx + bs)
                  IN  [requests |-> <<req>> \o rest.requests,
                       all_embeddings |-> BatchResult(resp, Len(batch)) \o rest.all_embeddings,
                       raised |-> rest.raised]

get_ollama_embeddings_batch(texts, bs, resps) == EmbedFrom(texts, bs, resps, 0)

\* =====================================================================
\* embed_chunks
\* =====================================================================
Running == pc \in {"probe", "batch", "insert"}

\* variant with the cursor one record too far
ResumeIndexOffByOne(db) == CountEmbedded(db) + 1

\* resume cursor
ResumeIndex(db) == CountEmbedded(db)

batch_end == Min(batch_start + batch_size, total_chunks)

batch_chunks == Range(batch_start, batch_end)

\* variant that lets the callee split the batch into single texts
RequestBatchSizeOne(bs) == 1

\* the batch size handed to get_ollama_embeddings_batch
RequestBatchSize(bs) == bs

\* variant without the interval test
ShouldCommitAtEndOnly(bend, start, interval, bs, total) == bend = total

\* Step 4
ShouldCommit(bend, start, interval, bs, total) ==
    (bend - start) % interval < bs \/ bend = total

\* the embedding stored for member k of the batch
EmbeddingBlob(skip, embs, k) ==
    IF ~skip /\ k < Len(embs) /\ embs[k + 1] # NULL THEN VEC ELSE NULL

\* variant that swallows the probe error without falling back
ProbeSkipsNever(outcome) == FALSE

\* the probe's except clause
ProbeSkips(outcome) == outcome = "url_error"

InitEmbed ==
    /\ total_chunks \in 1..MaxChunks
    /\ batch_size \in 1..MaxBatch
    /\ commit_interval \in 1..MaxInterval
    /\ resume = FALSE
    /\ skip_embeddings = FALSE
    /\ conn = EmptyDb
    /\ disk = EmptyDb
    /\ pc = "idle"
    /\ start_index = 0
    /\ batch_start = 0
    /\ i = 0
    /\ batch_embeddings = <<>>
    /\ embedded_count = 0
    /\ requests = <<>>
    /\ inserted = <<>>
    /\ probe = "none"
    /\ embedded_at_start = {}
    /\ healthy = TRUE
    /\ crashes = FALSE
    /\ runs = 0

InitChunkIdle ==
    /\ blocks = <<>>
    /\ block_id = 0
    /\ stats = [total_blocks |-> 0, parsed_sections |-> 0, skipped_blocks |-> 0,
                chapters_seen |-> {}]
    /\ seen_sections = {}
    /\ chunks = <<>>
    /\ cpc = "done"

\* lines 231-262: open the Store, count, choose the starting offset
BeginRun(res, skip, next_pc, db, start) ==
    /\ runs' = runs + 1
    /\ resume' = res
    /\ skip_embeddings' = skip
    /\ conn' = db
    /\ start_index' = start
    /\ batch_start' = start
    /\ pc' = next_pc
    /\ i' = 0
    /\ batch_embeddings' = <<>>
    /\ embedded_count' = 0
    /\ requests' = <<>>
    /\ inserted' = <<>>
    /\ probe' = "none"
    /\ embedded_at_start' = EmbeddedIds(disk)
    /\ healthy' = (healthy /\ ~skip)
    /\ UNCHANGED <<total_chunks, batch_size, commit_interval, crashes>>
    /\ UNCHANGED <<chunkVars, callVars>>

StartFresh(skip) ==
    /\ ~Running /\ runs < MaxRuns
    /\ CountAll(disk) = 0
    /\ \E res \in BOOLEAN :
          BeginRun(res, skip, IF skip THEN "batch" ELSE "probe", disk, 0)
    /\ UNCHANGED disk

StartResume(skip) ==
    /\ ~Running /\ runs < MaxRuns
    /\ CountAll(disk) > 0
    /\ BeginRun(TRUE, skip, IF skip THEN "batch" ELSE "probe", disk, ResumeIndex(disk))
    /\ UNCHANGED disk

\* "Clear and re-embed? [y/N]" answered y
StartClear(skip) ==
    /\ ~Running /\ runs < MaxRuns
    /\ CountAll(disk) > 0
    /\ LET cleared == DeleteFromChunksFts(DeleteFromChunks(disk))
       IN  /\ BeginRun(FALSE, skip, IF skip THEN "batch" ELSE "probe", cleared, 0)
           /\ disk' = cleared

\* variant that goes on with the run after the prompt was declined
StartDeclinedGoesOn(skip) ==
    /\ ~Running /\ runs < MaxRuns
    /\ CountAll(disk) > 0
    /\ BeginRun(FALSE, skip, IF skip THEN "batch" ELSE "probe", disk, 0)
    /\ UNCHANGED disk

\* "Clear and re-embed? [y/N]" answered anything else
StartDeclined(skip) ==
    /\ ~Running /\ runs < MaxRuns
    /\ CountAll(disk) > 0
    /\ BeginRun(FALSE, skip, "declined", disk, 0)
    /\ UNCHANGED disk

\* lines 264-276: the availability probe
Probe(outcome) ==
    /\ pc = "probe"
    /\ probe' = outcome
    /\ IF ProbeSkips(outcome)
       THEN /\ skip_embeddings' = TRUE /\ pc' = "batch"
       ELSE IF outcome = "invalid_json"
       THEN /\ pc' = "aborted" /\ UNCHANGED skip_embeddings
       ELSE /\ pc' = "batch" /\ UNCHANGED skip_embeddings
    /\ healthy' = (healthy /\ outcome = "ok")
    /\ UNCHANGED <<total_chunks, batch_size, commit_interval, resume, conn, disk,
                   start_index, batch_start, i, batch_embeddings, embedded_count,
                   requests, inserted, embedded_at_start, crashes, runs>>
    /\ UNCHANGED <<chunkVars, callVars>>

\* Steps 1 and 2 of one batch (lines 285-300)
EmbedBatch ==
    /\ pc = "batch" /\ batch_start < total_chunks
    /\ IF skip_embeddings
       THEN /\ batch_embeddings' = <<>>
            /\ pc' = "insert"
            /\ UNCHANGED <<requests, healthy>>
       ELSE LET bs == RequestBatchSize(batch_size)
                n  == Len(batch_chunks)
            IN  \E resps \in [1..NumRequests(n, bs) -> Responses(Min(n, bs))] :
                  LET out == get_ollama_embeddings_batch(batch_chunks, bs, resps)
                  IN  /\ batch_embeddings' = out.all_embeddings
                      /\ requests' = requests \o out.requests
                      /\ pc' = IF out.raised THEN "aborted" ELSE "insert"
                      /\ healthy' = (healthy /\ \A k \in 1..Len(out.requests) :
                                        out.requests[k].outcome = "ok")
    /\ i' = 0
    /\ UNCHANGED <<total_chunks, batch_size, commit_interval, resume, skip_embeddings,
                   conn, disk, start_index, batch_start, embedded_count, inserted,
                   probe, embedded_at_start, crashes, runs>>
    /\ UNCHANGED <<chunkVars, callVars>>

\* Step 3, one record (lines 303-334)
InsertRecord ==
    /\ pc = "insert" /\ i < Len(batch_chunks)
    /\ LET global_idx == batch_start + i
           blob == EmbeddingBlob(skip_embeddings, batch_embeddings, i)
       IN  /\ conn' = InsertOrReplace(conn, ChunkId(global_idx), blob)
           /\ embedded_count' = embedded_count + (IF blob # NULL THEN 1 ELSE 0)
           /\ inserted' = Append(inserted, global_idx)
    /\ i' = i + 1
    /\ UNCHANGED <<total_chunks, batch_size, commit_interval, resume, skip_embeddings,
                   disk, pc, start_index, batch_start, batch_embeddings, requests,
                   probe, embedded_at_start, healthy, crashes, runs>>
    /\ UNCHANGED <<chunkVars, callVars>>

\* Step 4 (lines 336-338) and the loop's advance
CommitStep ==
    /\ pc = "insert" /\ i = Len(batch_chunks)
    /\ disk' = IF ShouldCommit(batch_end, start_index, commit_interval, batch_size, total_chunks)
               THEN conn ELSE disk
    /\ batch_start' = batch_start + batch_size
    /\ pc' = "batch"
    /\ UNCHANGED <<total_chunks, batch_size, commit_interval, resume, skip_embeddings,
                   conn, start_index, i, batch_embeddings, embedded_count, requests,
                   inserted, probe, embedded_at_start, healthy, crashes, runs>>
    /\ UNCHANGED <<chunkVars, callVars>>

\* lines 353-367: the loop is over
Finish ==
    /\ pc = "batch" /\ batch_start >= total_chunks
    /\ disk' = conn
    /\ pc' = "done"
    /\ UNCHANGED <<total_chunks, batch_size, commit_interval, resume, skip_embeddings,
                   conn, start_index, batch_start, i, batch_embeddings, embedded_count,
                   requests, inserted, probe, embedded_at_start, healthy, crashes, runs>>
    /\ UNCHANGED <<chunkVars, callVars>>

\* the process dies: what was not committed is lost
Crash ==
    /\ Running
    /\ conn' = disk
    /\ pc' = "crashed"
    /\ crashes' = TRUE
    /\ UNCHANGED <<total_chunks, batch_size, commit_interval, resume, skip_embeddings,
                   disk, start_index, batch_start, i, batch_embeddings, embedded_count,
                   requests, inserted, probe, embedded_at_start, healthy, runs>>
    /\ UNCHANGED <<chunkVars, callVars>>

NextEmbed ==
    \/ \E skip \in BOOLEAN : StartFresh(skip)
    \/ \E skip \in BOOLEAN : StartResume(skip)
    \/ \E skip \in BOOLEAN : StartClear(skip)
    \/ \E skip \in BOOLEAN : StartDeclined(skip)
    \/ \E outcome \in {"ok", "url_error", "invalid_json"} : Probe(outcome)
    \/ EmbedBatch
    \/ InsertRecord
    \/ CommitStep
    \/ Finish
    \/ Crash

\* no pure function is being called
NotCalled == [called |-> FALSE]

InitCallIdle == arg = NotCalled /\ ret = NotCalled

InitEmbedRuns == InitEmbed /\ InitChunkIdle /\ InitCallIdle

SpecEmbed == InitEmbedRuns /\ [][NextEmbed]_vars

\* =====================================================================
\* Text
\* A text is a sequence of pieces; a piece has a kind k, a value v and a
\* length n in characters:
\*   "num"  a section number "g1.g2"        "cap"  a capitalised word
\*   "low"  lower-case words                "mark" a marker "(digits)"
\*   "sp"   a space     "nl" a newline      "dot"  "."     "dash" an em dash
\*   "cut"  what a slice left of a piece it ended in
\* =====================================================================
Piece(k, v, n) == [k |-> k, v |-> v, n |-> n]

Num718 == Piece("num", <<"718", "112">>, 7)

Num90 == Piece("num", <<"90", "803">>, 6)

Cap(word, n) == Piece("cap", <<word>>, n)

Low(n) == Piece("low", <<>>, n)

Mark(digits) == Piece("mark", <<digits>>, 3)

Sp == Piece("sp", <<>>, 1)

Nl == Piece("nl", <<>>, 1)

Dot == Piece("dot", <<>>, 1)

Dash == Piece("dash", <<>>, 1)

\* \s
IsSpace(p) == p.k \in {"sp", "nl"}

SetMin(S) == CHOOSE x \in S : \A y \in S : x <= y

\* len(text)
RECURSIVE CharLen(_)
CharLen(t) == IF t = <<>> THEN 0 ELSE Head(t).n + CharLen(Tail(t))

\* the first n characters of piece p, n < p.n
CutPiece(p, n) == IF p.k = "low" THEN Low(n) ELSE Piece("cut", p.v, n)

\* text[:limit]
RECURSIVE Prefix(_, _)
Prefix(t, limit) ==
    IF t = <<>> \/ limit <= 0 THEN <<>>
    ELSE IF Head(t).n <= limit
    THEN <<Head(t)>> \o Prefix(Tail(t), limit - Head(t).n)
    ELSE <<CutPiece(Head(t), limit)>>

\* text.strip()
Strip(t) ==
    LET keep == {m \in DOMAIN t : ~IsSpace(t[m])}
    IN  IF keep = {} THEN <<>> ELSE SubSeq(t, SetMin(keep), SetMax(keep))

\* piece j follows a line start and nothing but white space: ^\s* or \n\s*
AtLineStart(t, j) ==
    LET before == {m \in 1..(j - 1) : ~IsSpace(t[m])}
    IN  \/ before = {}
        \/ \E m \in (SetMax(before) + 1)..(j - 1) : t[m].k = "nl"

\* the first piece of kind in kinds at or after position from, or Len(t) + 1
FirstOf(t, from, kinds) ==
    SetMin({m \in from..Len(t) : t[m].k \in kinds} \cup {Len(t) + 1})

\* \s+([A-Z]...: the capitalised word that follows piece j after white
\* space, or 0
CapAfter(t, j) ==
    LET c == FirstOf(t, j + 1, {"num", "cap", "low", "mark", "dot", "dash", "cut"})
    IN  IF c > j + 1 /\ c <= Len(t) /\ t[c].k = "cap" THEN c ELSE 0

Kinds == {"num", "cap", "low", "mark", "sp", "nl", "dot", "dash", "cut"}

\* re.search found nothing
NoMatch == [g1 |-> "", g2 |-> "", title |-> <<>>]

\* Python's None, for an Optional result
None == [none |-> TRUE]

\* a match on the number piece p: the groups of the number, and the title
Match(p, title) == [g1 |-> p.v[1], g2 |-> p.v[2], title |-> title]

\* SECTION_HEADER_PATTERN matches with its number at piece j: the number
\* at a line start, white space, a capitalised title
HeaderAt(t, j) == t[j].k = "num" /\ AtLineStart(t, j) /\ CapAfter(t, j) # 0

\* group(3).strip(): from the capital up to the first ".", em dash or
\* line end
HeaderTitle(t, j) ==
    LET c == CapAfter(t, j)
    IN  Strip(SubSeq(t, c, FirstOf(t, c + 1, {"dot", "dash", "nl"}) - 1))

\* SECTION_HEADER_PATTERN.search(t)
SearchHeader(t) ==
    LET hits == {j \in DOMAIN t : HeaderAt(t, j)}
    IN  IF hits = {} THEN NoMatch
        ELSE Match(t[SetMin(hits)], HeaderTitle(t, SetMin(hits)))

\* where the title of SECTION_ALT_PATTERN ends: the first piece after the
\* capital that is not letters or white space
AltTitleEnd(t, c) == FirstOf(t, c + 1, Kinds \ {"cap", "low", "sp", "nl"})

\* \.\s*$ at the "." of position e: only white space up to a line end
DotEndsLine(t, e) ==
    LET x == FirstOf(t, e + 1, Kinds \ {"sp"})
    IN  x = Len(t) + 1 \/ t[x].k = "nl"

\* SECTION_ALT_PATTERN matches with its number at piece j: the number
\* anywhere, white space, a title of letters, then ".—", a "." that ends
\* the line, or an em dash
AltAt(t, j) ==
    /\ t[j].k = "num"
    /\ CapAfter(t, j) # 0
    /\ LET e == AltTitleEnd(t, CapAfter(t, j))
       IN  /\ e <= Len(t)
           /\ \/ t[e].k = "dash"
              \/ /\ t[e].k = "dot"
                 /\ \/ e + 1 <= Len(t) /\ t[e + 1].k = "dash"
                    \/ DotEndsLine(t, e)

\* SECTION_ALT_PATTERN.search(t)
SearchAlt(t) ==
    LET hits == {j \in DOMAIN t : AltAt(t, j)}
    IN  IF hits = {} THEN NoMatch
        ELSE LET j == SetMin(hits)
                 c == CapAfter(t, j)
             IN  Match(t[j], Strip(SubSeq(t, c, AltTitleEnd(t, c) - 1)))

\* re.search(r'(\d{1,3})\.(\d{2,5})', t)
SearchBare(t) ==
    LET hits == {j \in DOMAIN t : t[j].k = "num"}
    IN  IF hits = {} THEN NoMatch ELSE Match(t[SetMin(hits)], <<>>)

HeaderWindow == 500

AltWindow == 500

BareWindow == 200

\* the three searches of identify_section_number on a block's text
Scan(text) ==
    [primary |-> SearchHeader(Prefix(text, HeaderWindow)),
     alt     |-> SearchAlt(Prefix(text, AltWindow)),
     bare    |-> SearchBare(Prefix(text, BareWindow))]

\* =====================================================================
\* chunk_statutes (chunk-statutes-structured.py)
\* A block is described by what each of the three header patterns finds
\* in it: NoMatch, or the matched numbers g1, g2 ("g1.g2") and title. The
\* block's text is identified by its position in the input.
\* =====================================================================
\* what a pattern can find in a block: the numbers and the title it captures
Numbers == {Match(Num718, <<Cap("Bylaws", 6)>>), Match(Num90, <<Cap("Hearsay", 7)>>)}

Found == {NoMatch} \cup Numbers

Block == [primary : Found, alt : Found, bare : Found]

\* f"{group(1)}.{group(2)}"
SectionNumber(m) == <<m.g1, m.g2>>

\* section.split('.')[0]
ChapterOfSection(section) == section[1]

\* variant that tries the bare number pattern first
identify_bare_first(block) ==
    IF block.bare # NoMatch
    THEN [chapter |-> block.bare.g1, section |-> SectionNumber(block.bare), title |-> <<>>]
    ELSE IF block.primary # NoMatch
    THEN [chapter |-> block.primary.g1, section |-> SectionNumber(block.primary),
          title |-> block.primary.title]
    ELSE IF block.alt # NoMatch
    THEN [chapter |-> ChapterOfSection(SectionNumber(block.alt)),
          section |-> SectionNumber(block.alt), title |-> block.alt.title]
    ELSE None

\* the three strategies, in the order the function tries them
identify_section_number(block) ==
    IF block.primary # NoMatch
    THEN [chapter |-> block.primary.g1, section |-> SectionNumber(block.primary),
          title |-> block.primary.title]
    ELSE IF block.alt # NoMatch
    THEN [chapter |-> ChapterOfSection(SectionNumber(block.alt)),
          section |-> SectionNumber(block.alt), title |-> block.alt.title]
    ELSE IF block.bare # NoMatch
    THEN [chapter |-> block.bare.g1, section |-> SectionNumber(block.bare), title |-> <<>>]
    ELSE None

\* FloridaStatute.id: section_number.replace(".", "-") behind "fla-stat-"
StatuteId(section) == <<"fla-stat", section[1], section[2]>>

\* variant that builds a generic chunk for a block without section number
create_generic_chunk(block, bid) ==
    LET section_info == identify_section_number(block)
    IN  [chapter_number |-> IF section_info = None THEN "" ELSE section_info.chapter,
         section_number |-> IF section_info = None THEN <<"", "">> ELSE section_info.section,
         section_title  |-> IF section_info = None THEN <<>> ELSE section_info.title,
         full_text      |-> bid]

create_statute_from_block(block, bid) ==
    LET section_info == identify_section_number(block)
    IN  IF section_info = None
        THEN None
        ELSE [chapter_number |-> section_info.chapter,
              section_number |-> section_info.section,
              section_title  |-> section_info.title,
              full_text      |-> bid]

\* FloridaStatute.to_chunk
to_chunk(statute) ==
    [id |-> StatuteId(statute.section_number),
     chapter |-> statute.chapter_number,
     section |-> statute.section_number,
     title   |-> statute.section_title,
     content |-> statute.full_text]

\* variant without deduplication
AlreadySeenNever(section, seen) == FALSE

\* the dedup test of the loop
AlreadySeen(section, seen) == section \in seen

InitEmbedIdle ==
    /\ total_chunks = 1 /\ batch_size = 1 /\ commit_interval = 1
    /\ resume = FALSE /\ skip_embeddings = FALSE
    /\ conn = EmptyDb /\ disk = EmptyDb
    /\ pc = "idle" /\ start_index = 0 /\ batch_start = 0 /\ i = 0
    /\ batch_embeddings = <<>> /\ embedded_count = 0
    /\ requests = <<>> /\ inserted = <<>> /\ probe = "none"
    /\ embedded_at_start = {} /\ healthy = TRUE /\ crashes = FALSE /\ runs = 0

InitChunk ==
    /\ \E n \in 0..MaxBlocks : blocks \in [1..n -> Block]
    /\ block_id = 0
    /\ stats = [total_blocks |-> 0, parsed_sections |-> 0, skipped_blocks |-> 0,
                chapters_seen |-> {}]
    /\ seen_sections = {}
    /\ chunks = <<>>
    /\ cpc = "loop"

\* one iteration of the loop over parse_blocks (lines 174-201)
ProcessBlock ==
    /\ cpc = "loop" /\ block_id < Len(blocks)
    /\ LET statute == create_statute_from_block(blocks[block_id + 1], block_id)
           counted == [stats EXCEPT !.total_blocks = @ + 1]
       IN  IF statute = None
           THEN /\ stats' = [counted EXCEPT !.skipped_blocks = @ + 1]
                /\ UNCHANGED <<seen_sections, chunks>>
           ELSE IF AlreadySeen(statute.section_number, seen_sections)
           THEN /\ stats' = counted
                /\ UNCHANGED <<seen_sections, chunks>>
           ELSE /\ seen_sections' = seen_sections \cup {statute.section_number}
                /\ chunks' = Append(chunks, to_chunk(statute))
                /\ stats' = [counted EXCEPT !.parsed_sections = @ + 1,
                                            !.chapters_seen = @ \cup {statute.chapter_number}]
    /\ block_id' = block_id + 1
    /\ UNCHANGED <<blocks, cpc>>
    /\ UNCHANGED <<embedVars, callVars>>

\* lines 203-217: the input is exhausted, the chunks are written out
FinishChunking ==
    /\ cpc = "loop" /\ block_id = Len(blocks)
    /\ cpc' = "done"
    /\ UNCHANGED <<blocks, block_id, stats, seen_sections, chunks>>
    /\ UNCHANGED <<embedVars, callVars>>

NextChunk ==
    \/ ProcessBlock
    \/ FinishChunking

InitChunkRun == InitChunk /\ InitEmbedIdle /\ InitCallIdle

SpecChunk == InitChunkRun /\ [][NextChunk]_vars

\* =====================================================================
\* Properties of embed_chunks and the Store (under SpecEmbed)
\* =====================================================================
Started == pc \in {"probe", "batch", "insert", "done", "aborted", "crashed"}

\* the records of the k-th batch of the current run, k = 1, 2, ...
BatchK(k) == Range(start_index + (k - 1) * batch_size,
                   Min(start_index + k * batch_size, total_chunks))

ToProcess == IF total_chunks > start_index THEN total_chunks - start_index ELSE 0

NumBatches == (ToProcess + batch_size - 1) \div batch_size

\* the k-th batch of the current run has been inserted completely
BatchInserted(k) == Len(inserted) >= Min(k * batch_size, ToProcess)

\* records written through the connection and not yet committed
Uncommitted == Cardinality(conn.rows \ disk.rows)

SeqToSet(q) == {q[k] : k \in DOMAIN q}

\* C1: when every probe and every embedding request since the empty Store
\* succeeded, a run that completes, whatever crashes preceded it, leaves the
\* Store with exactly N records, all of them embedded.
C1_ResumeCompletes ==
    (pc = "done" /\ healthy) =>
        /\ CountEmbedded(disk) = total_chunks
        /\ CountAll(disk) = total_chunks
        /\ conn = disk

\* a resumed run that completed after an interrupted one had committed part
C1_Witness ==
    /\ pc = "done" /\ healthy /\ crashes /\ resume
    /\ start_index > 0 /\ start_index < total_chunks

\* C2 as stated: the uncommitted records are at most one batch (at most B).
C2_AtMostOneBatch == Running => Uncommitted <= batch_size

\* C2 amended: the uncommitted records are fewer than commit_interval +
\* batch_size.
C2_UncommittedBounded == Running => Uncommitted <= commit_interval + batch_size - 1

\* the amended bound is reached, beyond one batch
C2_Witness ==
    /\ Running
    /\ Uncommitted = commit_interval + batch_size - 1
    /\ Uncommitted > batch_size

\* C3: once a batch is inserted, its records are all embedded or all null.
C3_BatchAllOrNothing ==
    (pc = "insert" /\ i = Len(batch_chunks)) =>
        \/ \A idx \in SeqToSet(batch_chunks) : EmbeddingOf(conn, ChunkId(idx)) = NULL
        \/ \A idx \in SeqToSet(batch_chunks) : EmbeddingOf(conn, ChunkId(idx)) = VEC

C5_ResumeSkipsEmbedded ==
    (resume /\ pc \in {"probe", "batch", "insert", "done"}) =>
        /\ {ChunkId(idx) : idx \in 0..(start_index - 1)} = embedded_at_start
        /\ \A k \in 1..Len(requests) :
              \A idx \in SeqToSet(requests[k].texts) :
                  ChunkId(idx) \notin embedded_at_start

\* C6: an unreachable service at the probe means no request at all, no
\* abort, and every record from the start offset on stored with a null
\* embedding.
C6_ProbeFallback ==
    probe = "url_error" =>
        /\ requests = <<>>
        /\ pc # "aborted"
        /\ skip_embeddings
        /\ pc # "crashed" =>
              \A idx \in SeqToSet(inserted) : EmbeddingOf(conn, ChunkId(idx)) = NULL
        /\ pc = "done" =>
              /\ inserted = Range(start_index, total_chunks)
              /\ \A idx \in SeqToSet(inserted) : EmbeddingOf(disk, ChunkId(idx)) = NULL

\* a lexical-only run forced by the probe has stored records
C6_Witness ==
    /\ probe = "url_error" /\ pc = "done"
    /\ Len(inserted) >= 2

\* C7: with embeddings enabled the k-th request carries exactly the k-th
\* contiguous batch of at most B records, in index order; records are
\* inserted in index order; and a request is only issued once every earlier
\* batch is inserted completely.
C7_SequentialBatches ==
    (Started /\ ~skip_embeddings /\ pc # "aborted") =>
        /\ \A k \in 1..Len(requests) :
              /\ requests[k].texts = BatchK(k)
              /\ Len(requests[k].texts) <= batch_size
              /\ k < Len(requests) => BatchInserted(k)
        /\ inserted = Range(start_index, start_index + Len(inserted))
        /\ Len(inserted) <= Min(Len(requests) * batch_size, ToProcess)
        /\ pc = "done" => Len(requests) = NumBatches

\* a complete run of several batches, the first of them with two members
C7_Witness ==
    /\ pc = "done" /\ ~skip_embeddings
    /\ Len(requests) >= 2
    /\ Len(requests[1].texts) = 2

\* the lexical index holds exactly one entry per row of the primary table
FtsInSync(db) == db.fts = SetToBag({FtsEntry(r) : r \in db.rows})

\* C8: after any sequence of Store writes the lexical index has exactly one
\* entry for each primary-table row and none for a row that is gone.
C8_LexicalIndexInSync == FtsInSync(conn) /\ FtsInSync(disk)

\* =====================================================================
\* Properties of chunk_statutes (under SpecChunk)
\* =====================================================================
Processed == 0..(block_id - 1)

Unidentified == {k \in Processed : identify_section_number(blocks[k + 1]) = None}

Identified == Processed \ Unidentified

SectionOfBlock(k) == identify_section_number(blocks[k + 1]).section

FirstBlockWith(s) ==
    CHOOSE k \in Identified :
        /\ SectionOfBlock(k) = s
        /\ \A m \in Identified : SectionOfBlock(m) = s => k <= m

\* C9: the output holds exactly one record per recovered section number,
\* with the content of the first block that has this section number.
C9_FirstBlockWins ==
    /\ \A k \in Identified :
          Cardinality({j \in DOMAIN chunks : chunks[j].section = SectionOfBlock(k)}) = 1
    /\ \A j \in DOMAIN chunks :
          /\ chunks[j].section \in {SectionOfBlock(k) : k \in Identified}
          /\ chunks[j].content = FirstBlockWith(chunks[j].section)

\* two blocks with the same section number were read, and the run is over
C9_Witness ==
    /\ cpc = "done"
    /\ \E k \in Identified : \E m \in Identified :
          k < m /\ SectionOfBlock(k) = SectionOfBlock(m)

CountedDuplicates == IF "duplicate_blocks" \in DOMAIN stats THEN stats.duplicate_blocks ELSE 0

\* the blocks dropped at lines 186-189: identified, but not the first block
\* with their section number
DuplicateDrops == {k \in Identified : FirstBlockWith(SectionOfBlock(k)) # k}

\* C11: every block dropped as a duplicate is counted in the statistics, so
\* that total_blocks = parsed_sections + skipped_blocks + the counted
\* duplicate drops.
C11_AllBlocksAccounted ==
    /\ CountedDuplicates = Cardinality(DuplicateDrops)
    /\ stats.total_blocks = stats.parsed_sections + stats.skipped_blocks + CountedDuplicates

\* =====================================================================
\* get_title_for_chapter (models/florida_statute.py)
\* =====================================================================
MaxChapter == 1000

\* the chapter numbers a call is made with: the headers give 1 to 3 digits,
\* the function itself takes any integer
ChapterNums == (0 - 1)..MaxChapter

FLORIDA_TITLES ==
    ("I" :> "CONSTRUCTION OF STATUTES") @@
    ("II" :> "STATE ORGANIZATION") @@
    ("III" :> "LEGISLATIVE BRANCH; COMMISSIONS") @@
    ("IV" :> "EXECUTIVE BRANCH") @@
    ("V" :> "JUDICIAL BRANCH") @@
    ("VI" :> "CIVIL PRACTICE AND PROCEDURE") @@
    ("VII" :> "EVIDENCE") @@
    ("VIII" :> "LIMITATIONS") @@
    ("IX" :> "ELECTORS AND ELECTIONS") @@
    ("X" :> "PUBLIC OFFICERS, EMPLOYEES, AND RECORDS") @@
    ("XI" :> "COUNTY ORGANIZATION AND INTERGOVERNMENTAL RELATIONS") @@
    ("XII" :> "MUNICIPALITIES") @@
    ("XIII" :> "PLANNING AND DEVELOPMENT") @@
    ("XIV" :> "TAXATION AND FINANCE") @@
    ("XV" :> "HOMESTEAD AND EXEMPTIONS") @@
    ("XVI" :> "WATERS AND WATER SUPPLY") @@
    ("XVII" :> "MILITARY AFFAIRS AND RELATED MATTERS") @@
    ("XVIII" :> "PUBLIC LANDS AND PROPERTY") @@
    ("XIX" :> "PUBLIC BUSINESS") @@
    ("XX" :> "PUBLIC TRUSTS") @@
    ("XXI" :> "PUBLIC HEALTH") @@
    ("XXII" :> "PUBLIC WELFARE") @@
    ("XXIII" :> "MOTOR VEHICLES") @@
    ("XXIV" :> "VESSELS") @@
    ("XXV" :> "AVIATION") @@
    ("XXVI" :> "PUBLIC TRANSPORTATION") @@
    ("XXVII" :> "RAILROADS AND OTHER REGULATED UTILITIES") @@
    ("XXVIII" :> "NATURAL RESOURCES; CONSERVATION, RECLAMATION, AND USE") @@
    ("XXIX" :> "PUBLIC HEALTH") @@
    ("XXX" :> "SOCIAL WELFARE") @@
    ("XXXI" :> "LABOR") @@
    ("XXXII" :> "REGULATION OF PROFESSIONS AND OCCUPATIONS") @@
    ("XXXIII" :> "REGULATION OF TRADE, COMMERCE, INVESTMENTS, AND SOLICITATIONS") @@
    ("XXXIV" :> "ALCOHOLIC BEVERAGES AND TOBACCO") @@
    ("XXXV" :> "AGRICULTURE, HORTICULTURE, AND ANIMAL INDUSTRY") @@
    ("XXXVI" :> "BUSINESS ORGANIZATIONS") @@
    ("XXXVII" :> "INSURANCE") @@
    ("XXXVIII" :> "BANKS AND BANKING") @@
    ("XXXIX" :> "COMMERCIAL RELATIONS") @@
    ("XL" :> "REAL AND PERSONAL PROPERTY") @@
    ("XLI" :> "STATUTE OF FRAUDS, FRAUDULENT TRANSFERS, AND GENERAL ASSIGNMENTS") @@
    ("XLII" :> "ESTATES AND TRUSTS") @@
    ("XLIII" :> "DOMESTIC RELATIONS") @@
    ("XLIV" :> "CIVIL RIGHTS") @@
    ("XLV" :> "TORTS") @@
    ("XLVI" :> "CRIMES") @@
    ("XLVII" :> "CRIMINAL PROCEDURE AND CORRECTIONS") @@
    ("XLVIII" :> "K-20 EDUCATION CODE") @@
    ("XLIX" :> "POSTSECONDARY EDUCATION")

\* variant whose first two ranges share chapter 14
chapter_ranges_overlapping == <<
    <<1, 14, "I">>,
    <<14, 24, "II">> >>

chapter_ranges == <<
    <<1, 14, "I">>,
    <<15, 24, "II">>,
    <<25, 44, "III">>,
    <<45, 89, "IV">>,
    <<90, 92, "VII">>,
    <<93, 99, "VIII">>,
    <<100, 109, "IX">>,
    <<110, 129, "X">>,
    <<130, 149, "XI">>,
    <<150, 169, "XII">>,
    <<170, 199, "XIII">>,
    <<200, 299, "XIV">>,
    <<300, 399, "XVIII">>,
    <<400, 499, "XXIX">>,
    <<500, 599, "XXXIII">>,
    <<600, 699, "XXXVI">>,
    <<700, 739, "XL">>,
    <<740, 769, "XLII">>,
    <<770, 799, "XLIV">>,
    <<800, 899, "XLVI">>,
    <<900, 999, "XLVII">> >>

\* dict.get(title_num, "")
TitleName(title_num) ==
    IF title_num \in DOMAIN FLORIDA_TITLES THEN FLORIDA_TITLES[title_num] ELSE ""

\* the ranges that contain chapter_num, by position in chapter_ranges
RangesContaining(chapter_num) ==
    {k \in DOMAIN chapter_ranges :
        chapter_ranges[k][1] <= chapter_num /\ chapter_num <= chapter_ranges[k][2]}

\* the loop returns at the first range that contains chapter_num
get_title_for_chapter(chapter_num) ==
    LET hits == RangesContaining(chapter_num)
    IN  IF hits = {}
        THEN [title_num |-> "", title_name |-> ""]
        ELSE LET first == CHOOSE k \in hits : \A m \in hits : k <= m
             IN  [title_num  |-> chapter_ranges[first][3],
                  title_name |-> TitleName(chapter_ranges[first][3])]

InitTitle ==
    /\ \E n \in ChapterNums : arg = [called |-> TRUE, chapter_num |-> n]
    /\ ret = NotCalled

CallGetTitle ==
    /\ ret = NotCalled
    /\ ret' = [called |-> TRUE, value |-> get_title_for_chapter(arg.chapter_num)]
    /\ UNCHANGED arg
    /\ UNCHANGED <<embedVars, chunkVars>>

NextTitle == CallGetTitle

InitTitleCall == InitTitle /\ InitEmbedIdle /\ InitChunkIdle

SpecTitle == InitTitleCall /\ [][NextTitle]_vars

\* C13: the chapter ranges are pairwise non-overlapping, so at most one
\* range contains a chapter number; get_title_for_chapter returns that
\* range's title identifier with its title name, and two empty strings for
\* a chapter number in no range.
C13_TitleOfChapter ==
    /\ \A j \in DOMAIN chapter_ranges : \A k \in DOMAIN chapter_ranges :
          j # k => \/ chapter_ranges[j][2] < chapter_ranges[k][1]
                   \/ chapter_ranges[k][2] < chapter_ranges[j][1]
    /\ ret # NotCalled =>
          LET hits == {k \in DOMAIN chapter_ranges :
                          /\ chapter_ranges[k][1] <= arg.chapter_num
                          /\ arg.chapter_num <= chapter_ranges[k][2]}
          IN  /\ Cardinality(hits) <= 1
              /\ hits = {} => ret.value = [title_num |-> "", title_name |-> ""]
              /\ \A k \in hits :
                    /\ ret.value.title_num = chapter_ranges[k][3]
                    /\ chapter_ranges[k][3] \in DOMAIN FLORIDA_TITLES
                    /\ ret.value.title_name = FLORIDA_TITLES[chapter_ranges[k][3]]

\* chapter 718 was looked up and lies in the range of title XL
C13_Witness ==
    /\ ret # NotCalled
    /\ arg.chapter_num = 718
    /\ ret.value.title_num = "XL"

\* =====================================================================
\* parse_subsections (models/florida_statute.py) and the Statute built
\* from a block's text (create_statute_from_block)
\* =====================================================================
SubsectionLimit == 2000

PreviewLength == 500

\* SUBSECTION_PATTERNS['level1'] = ^\s*\((\d+)\)\s* matches with its marker
\* at piece j, when the match before it was at marker prev (0: none). A
\* match ends behind the white space that follows its marker, so a marker
\* that only white space separates from prev must itself follow a newline.
MarkerAt(t, j, prev) ==
    /\ t[j].k = "mark"
    /\ IF prev > 0 /\ \A m \in (prev + 1)..(j - 1) : IsSpace(t[m])
       THEN j - 1 > prev /\ t[j - 1].k = "nl"
       ELSE AtLineStart(t, j)

\* list(SUBSECTION_PATTERNS['level1'].finditer(text)), as marker positions
RECURSIVE level1_matches(_, _, _)
level1_matches(t, j, prev) ==
    IF j > Len(t) THEN <<>>
    ELSE IF MarkerAt(t, j, prev)
    THEN <<j>> \o level1_matches(t, j + 1, j)
    ELSE level1_matches(t, j + 1, prev)

\* number=f"({match.group(1)})"
MarkerNumber(p) == <<"(", p.v[1], ")">>

\* text[start:end].strip(), cut to 2000 characters and "...", of which the
\* first 500 are kept
SubsectionText(span) ==
    LET subsection_text == Strip(span)
        limited == IF CharLen(subsection_text) > SubsectionLimit
                   THEN Prefix(subsection_text, SubsectionLimit) \o <<Dot, Dot, Dot>>
                   ELSE subsection_text
    IN  Prefix(limited, PreviewLength)

parse_subsections(text) ==
    LET matches == level1_matches(text, 1, 0)
    IN  [m \in DOMAIN matches |->
            LET end == IF m + 1 <= Len(matches) THEN matches[m + 1] ELSE Len(text) + 1
            IN  [number |-> MarkerNumber(text[matches[m]]),
                 text   |-> SubsectionText(SubSeq(text, matches[m] + 1, end - 1)),
                 parent |-> None]]

\* create_statute_from_block on a block's text: the Statute of the three
\* searches, with the subsections of the text
StatuteOfText(text) ==
    LET statute == create_statute_from_block(Scan(text), text)
    IN  IF statute = None THEN None
        ELSE [chapter_number |-> statute.chapter_number,
              section_number |-> statute.section_number,
              section_title  |-> statute.section_title,
              full_text      |-> statute.full_text,
              subsections    |-> parse_subsections(text)]

MaxPhrases == 3

\* the phrases the input texts are made of
Phrases == {
    <<Num718, Sp, Cap("Bylaws", 6), Dot>>,
    <<Num90, Sp, Cap("Hearsay", 7), Dot, Dash>>,
    <<Num90, Sp, Low(5)>>,
    <<Mark("1"), Sp, Cap("Adoption", 8), Dot, Dash, Cap("The", 3), Sp, Low(14)>>,
    <<Mark("2"), Sp, Low(2100)>>,
    <<Mark("3")>>,
    <<Low(200), Sp>>,
    <<Sp>>,
    <<Nl>>,
    <<Nl, Sp>> }

RECURSIVE Concat(_)
Concat(ps) == IF ps = <<>> THEN <<>> ELSE Head(ps) \o Concat(Tail(ps))

Texts == UNION {{Concat(ps) : ps \in [1..n -> Phrases]} : n \in 0..MaxPhrases}

ParseFunctions == {"identify_section_number", "parse_subsections", "create_statute_from_block"}

InitParse ==
    /\ \E fn \in ParseFunctions : \E text \in Texts :
          arg = [called |-> TRUE, fn |-> fn, text |-> text]
    /\ ret = NotCalled

CallIdentify ==
    /\ ret = NotCalled /\ arg.fn = "identify_section_number"
    /\ ret' = [called |-> TRUE, value |-> identify_section_number(Scan(arg.text))]
    /\ UNCHANGED arg
    /\ UNCHANGED <<embedVars, chunkVars>>

CallParseSubsections ==
    /\ ret = NotCalled /\ arg.fn = "parse_subsections"
    /\ ret' = [called |-> TRUE, value |-> parse_subsections(arg.text)]
    /\ UNCHANGED arg
    /\ UNCHANGED <<embedVars, chunkVars>>

CallCreateStatute ==
    /\ ret = NotCalled /\ arg.fn = "create_statute_from_block"
    /\ ret' = [called |-> TRUE, value |-> StatuteOfText(arg.text)]
    /\ UNCHANGED arg
    /\ UNCHANGED <<embedVars, chunkVars>>

NextParse ==
    \/ CallIdentify
    \/ CallParseSubsections
    \/ CallCreateStatute

InitParseCall == InitParse /\ InitEmbedIdle /\ InitChunkIdle

SpecParse == InitParseCall /\ [][NextParse]_vars

\* =====================================================================
\* Properties of identify_section_number, parse_subsections and
\* create_statute_from_block on a block's text (under SpecParse)
\* =====================================================================
Returned(fn) == ret # NotCalled /\ arg.fn = fn

\* C12: the result is that of the first strategy that matches, in the
\* order primary header pattern on the first 500 characters, fallback
\* pattern on the first 500 characters, bare number on the first 200
\* characters; the bare number gives an empty title; the result is none
\* exactly when no strategy matches.
C12_FirstStrategyWins ==
    Returned("identify_section_number") =>
        LET p == SearchHeader(Prefix(arg.text, 500))
            a == SearchAlt(Prefix(arg.text, 500))
            b == SearchBare(Prefix(arg.text, 200))
        IN  /\ p # NoMatch =>
                  ret.value = [chapter |-> p.g1, section |-> <<p.g1, p.g2>>, title |-> p.title]
            /\ (p = NoMatch /\ a # NoMatch) =>
                  ret.value = [chapter |-> a.g1, section |-> <<a.g1, a.g2>>, title |-> a.title]
            /\ (p = NoMatch /\ a = NoMatch /\ b # NoMatch) =>
                  ret.value = [chapter |-> b.g1, section |-> <<b.g1, b.g2>>, title |-> <<>>]
            /\ ret.value = None <=> (p = NoMatch /\ a = NoMatch /\ b = NoMatch)

\* the header pattern matched one number while an earlier number of the
\* text is what the bare pattern finds, and the header's number is returned
C12_Witness ==
    /\ Returned("identify_section_number")
    /\ LET p == SearchHeader(Prefix(arg.text, 500))
           b == SearchBare(Prefix(arg.text, 200))
       IN  /\ p # NoMatch /\ b # NoMatch /\ b.g1 # p.g1
           /\ ret.value # None
           /\ ret.value.chapter = p.g1

\* the block of the example: "718.112 Bylaws. (1) Adoption.—The declaration..."
ExampleBlock ==
    <<Num718, Sp, Cap("Bylaws", 6), Dot, Sp,
      Mark("1"), Sp, Cap("Adoption", 8), Dot, Dash, Cap("The", 3), Sp, Low(14)>>

\* C14: the Statute built from the example block has chapter "718",
\* section "718.112", section_title "Bylaws" and exactly one subsection,
\* numbered "(1)".
C14_ExampleStatute ==
    (Returned("create_statute_from_block") /\ arg.text = ExampleBlock) =>
        /\ ret.value # None
        /\ ret.value.chapter_number = "718"
        /\ ret.value.section_number = <<"718", "112">>
        /\ ret.value.section_title = <<Cap("Bylaws", 6)>>
        /\ Len(ret.value.subsections) = 1
        /\ ret.value.subsections[1].number = <<"(", "1", ")">>

\* the first-level markers that stand first on their line
LineStartMarkers(t) == {j \in DOMAIN t : t[j].k = "mark" /\ AtLineStart(t, j)}

\* the n-th element of a set of positions, in source order
NthOf(S, n) == CHOOSE j \in S : Cardinality({m \in S : m < j}) = n - 1

\* C15: parse_subsections returns one entry per first-level marker at a
\* line start, in source order; entry n has the text of the span from just
\* behind marker n to marker n+1 (or the end of the text), at most 500
\* characters of it, and an empty parent.
C15_OneEntryPerMarker ==
    Returned("parse_subsections") =>
        LET t == arg.text
            marks == LineStartMarkers(t)
        IN  /\ Len(ret.value) = Cardinality(marks)
            /\ \A n \in 1..Cardinality(marks) :
                  LET j == NthOf(marks, n)
                      end == IF n < Cardinality(marks) THEN NthOf(marks, n + 1) ELSE Len(t) + 1
                  IN  /\ ret.value[n].number = <<"(", t[j].v[1], ")">>
                      /\ ret.value[n].text = Prefix(Strip(SubSeq(t, j + 1, end - 1)), 500)
                      /\ CharLen(ret.value[n].text) <= 500
                      /\ ret.value[n].parent = None

\* =====================================================================
\* extract_cross_references (models/florida_statute.py)
\* The text is the sequence of its citations and other words, in source
\* order. A citation has the pattern of CROSS_REF_PATTERNS that matches
\* it (fam), the way it is written (form) and the groups it captures (v).
\* =====================================================================
RefPiece(fam, form, v) == [fam |-> fam, form |-> form, v |-> v]

RefPieces ==
    {RefPiece("statute", form, <<n>>) : form \in {"§", "section"}, n \in {"90.803", "718.112"}}
    \cup {RefPiece("chapter", "ch.", <<n>>) : n \in {"90", "718"}}
    \cup {RefPiece("rule_civil", "Fla. R. Civ. P.", <<"1.140">>),
          RefPiece("rule_criminal", "Fla. R. Crim. P.", <<"3.191">>),
          RefPiece("rule_appellate", "Fla. R. App. P.", <<"9.100">>),
          RefPiece("constitution_fla", "Fla. Const.", <<"I", "2">>),
          RefPiece("constitution_us", "U.S. Const.", <<>>),
          RefPiece("none", "word", <<>>)}

\* pattern_name.replace('rule_', '').title()
RuleType(fam) ==
    CASE fam = "rule_civil" -> "Civil"
      [] fam = "rule_criminal" -> "Criminal"
      [] fam = "rule_appellate" -> "Appellate"

\* the citation string built from a match: its fixed words and its groups
CitationOf(p) ==
    CASE p.fam = "statute" -> <<"§">> \o p.v
      [] p.fam = "chapter" -> <<"ch.">> \o p.v
      [] p.fam \in {"rule_civil", "rule_criminal", "rule_appellate"} ->
            <<"Fla. R.", RuleType(p.fam), "P.">> \o p.v
      [] p.fam = "constitution_fla" -> <<"Fla. Const. art.">> \o p.v
      [] p.fam = "constitution_us" -> <<"U.S. Const.">>
      [] OTHER -> <<>>

\* CROSS_REF_PATTERNS[fam].finditer(text), as citation strings
RECURSIVE FindAll(_, _)
FindAll(text, fam) ==
    IF text = <<>> THEN <<>>
    ELSE IF Head(text).fam = fam
    THEN <<CitationOf(Head(text))>> \o FindAll(Tail(text), fam)
    ELSE FindAll(Tail(text), fam)

\* variant that puts a new citation in front
PrependNew(list, ref) ==
    IF \E k \in DOMAIN list : list[k] = ref THEN list ELSE <<ref>> \o list

\* variant without the membership test
AppendAlways(list, ref) == Append(list, ref)

\* if ref not in refs[...]: refs[...].append(ref)
AppendNew(list, ref) ==
    IF \E k \in DOMAIN list : list[k] = ref THEN list ELSE Append(list, ref)

\* one for loop over the matches of a pattern
RECURSIVE AddAll(_, _)
AddAll(list, found) ==
    IF found = <<>> THEN list
    ELSE AddAll(AppendNew(list, Head(found)), Tail(found))

extract_cross_references(text) ==
    LET statutes == AddAll(AddAll(<<>>, FindAll(text, "statute")), FindAll(text, "chapter"))
        rules == AddAll(AddAll(AddAll(<<>>, FindAll(text, "rule_civil")),
                               FindAll(text, "rule_criminal")),
                        FindAll(text, "rule_appellate"))
        fla == AddAll(<<>>, FindAll(text, "constitution_fla"))
        constitution == IF FindAll(text, "constitution_us") # <<>>
                        THEN AppendNew(fla, <<"U.S. Const.">>)
                        ELSE fla
    IN  [statutes |-> statutes, rules |-> rules, constitution |-> constitution]

MaxRefs == 3

RefTexts == UNION {[1..n -> RefPieces] : n \in 0..MaxRefs}

InitRefs ==
    /\ \E text \in RefTexts :
          arg = [called |-> TRUE, fn |-> "extract_cross_references", text |-> text]
    /\ ret = NotCalled

CallExtractCrossReferences ==
    /\ ret = NotCalled
    /\ ret' = [called |-> TRUE, value |-> extract_cross_references(arg.text)]
    /\ UNCHANGED arg
    /\ UNCHANGED <<embedVars, chunkVars>>

NextRefs == CallExtractCrossReferences

InitRefsCall == InitRefs /\ InitEmbedIdle /\ InitChunkIdle

SpecRefs == InitRefsCall /\ [][NextRefs]_vars

\* ---- properties of extract_cross_references (under SpecRefs)
RefLists == {"statutes", "rules", "constitution"}

\* the patterns whose citations go to a list, in the order of the loops
FamiliesOf(list) ==
    CASE list = "statutes" -> <<"statute", "chapter">>
      [] list = "rules" -> <<"rule_civil", "rule_criminal", "rule_appellate">>
      [] list = "constitution" -> <<"constitution_fla", "constitution_us">>

\* where the citation string x first occurs in the text
FirstSeen(text, x) == SetMin({k \in DOMAIN text : CitationOf(text[k]) = x})

\* the rank, in the loops of a list, of the pattern that citation x is from
FamilyRank(text, list, x) ==
    LET fams == FamiliesOf(list)
    IN  CHOOSE r \in DOMAIN fams : text[FirstSeen(text, x)].fam = fams[r]

\* C16: in each returned list the citations are in first-seen order: of
\* two citations of a list, the one whose first occurrence in the text
\* comes first stands first.
C16_FirstSeenOrder ==
    Returned("extract_cross_references") =>
        \A l \in RefLists :
            LET list == ret.value[l]
            IN  \A a \in DOMAIN list : \A b \in DOMAIN list :
                    FirstSeen(arg.text, list[a]) < FirstSeen(arg.text, list[b]) => a < b

\* C16, amended: each list holds the citations pattern by pattern in the
\* order of the loops, and in first-seen order within one pattern.
C16_FirstSeenWithinPattern ==
    Returned("extract_cross_references") =>
        \A l \in RefLists :
            LET list == ret.value[l]
                rank(k) == FamilyRank(arg.text, l, list[k])
                seen(k) == FirstSeen(arg.text, list[k])
            IN  \A a \in DOMAIN list : \A b \in DOMAIN list :
                    a < b <=> \/ rank(a) < rank(b)
                              \/ rank(a) = rank(b) /\ seen(a) < seen(b)

\* a list holds two citations in the opposite of their order in the text
C16_Witness ==
    /\ Returned("extract_cross_references")
    /\ \E l \in RefLists :
          LET list == ret.value[l]
          IN  \E a \in DOMAIN list : \E b \in DOMAIN list :
                  a < b /\ FirstSeen(arg.text, list[b]) < FirstSeen(arg.text, list[a])

\* C17: no list holds a citation twice, and each list holds every citation
\* that its patterns find in the text, whatever the other lists hold.
C17_NoDuplicatesPerList ==
    Returned("extract_cross_references") =>
        \A l \in RefLists :
            LET list == ret.value[l]
                fams == {FamiliesOf(l)[r] : r \in DOMAIN FamiliesOf(l)}
            IN  /\ \A a \in DOMAIN list : \A b \in DOMAIN list : list[a] = list[b] => a = b
                /\ {list[k] : k \in DOMAIN list} =
                      {CitationOf(arg.text[k]) :
                          k \in {m \in DOMAIN arg.text : arg.text[m].fam \in fams}}

\* the text cites one section twice, written in two ways, next to a
\* citation of another list, and the section is in the statutes list once
C17_Witness ==
    /\ Returned("extract_cross_references")
    /\ \E j \in DOMAIN arg.text : \E k \in DOMAIN arg.text :
          /\ j < k
          /\ arg.text[j].fam = "statute"
          /\ arg.text[j].form # arg.text[k].form
          /\ CitationOf(arg.text[j]) = CitationOf(arg.text[k])
          /\ Cardinality({m \in DOMAIN ret.value.statutes :
                             ret.value.statutes[m] = CitationOf(arg.text[j])}) = 1
    /\ ret.value.rules # <<>>

\* =====================================================================
\* The match expression of search_statutes (rag/query_fl_statutes.py) and
\* search_fts (embed-statutes.py), and how FTS5 reads it
\* A query is a sequence of characters; the word OR stands as one item.
\* =====================================================================
DQ == "\""

MaxQueryLen == 4

QueryChars == {"a", "OR", DQ, "*", "(", " "}

Queries == UNION {[1..n -> QueryChars] : n \in 0..MaxQueryLen}

\* query.split(): the runs of characters between white space; cur is the
\* run being read
RECURSIVE SplitFrom(_, _)
SplitFrom(q, cur) ==
    IF q = <<>> THEN (IF cur = <<>> THEN <<>> ELSE <<cur>>)
    ELSE IF Head(q) = " "
    THEN (IF cur = <<>> THEN <<>> ELSE <<cur>>) \o SplitFrom(Tail(q), <<>>)
    ELSE SplitFrom(Tail(q), Append(cur, Head(q)))

Split(q) == SplitFrom(q, <<>>)

\* f'"{term}"'
Quote(term) == <<DQ>> \o term \o <<DQ>>

\* ' '.join(...)
RECURSIVE JoinSpace(_)
JoinSpace(parts) ==
    IF parts = <<>> THEN <<>>
    ELSE IF Len(parts) = 1 THEN Head(parts)
    ELSE Head(parts) \o <<" ">> \o JoinSpace(Tail(parts))

\* safe_query
SafeQuery(query) ==
    LET terms == Split(query)
    IN  JoinSpace([k \in DOMAIN terms |-> Quote(terms[k])])

\* FTS5 reads a string: from behind the opening quote to the closing one,
\* "" inside standing for one quote; the string may not be closed
RECURSIVE ReadString(_, _)
ReadString(s, acc) ==
    IF s = <<>> THEN [closed |-> FALSE, v |-> acc, rest |-> <<>>]
    ELSE IF Head(s) = DQ
    THEN IF Len(s) >= 2 /\ s[2] = DQ
         THEN ReadString(Tail(Tail(s)), Append(acc, DQ))
         ELSE [closed |-> TRUE, v |-> acc, rest |-> Tail(s)]
    ELSE ReadString(Tail(s), Append(acc, Head(s)))

\* the characters of an FTS5 bareword
IsWordChar(c) == c \in {"a", "OR"}

\* the bareword at the head of s
RECURSIVE ReadWord(_)
ReadWord(s) ==
    IF s = <<>> \/ ~IsWordChar(Head(s)) THEN <<>> ELSE <<Head(s)>> \o ReadWord(Tail(s))

\* the tokens FTS5 makes of a match expression: strings (literal terms),
\* barewords, the operator words, syntax characters; "error" for a string
\* left open
RECURSIVE Fts5Tokens(_)
Fts5Tokens(s) ==
    IF s = <<>> THEN <<>>
    ELSE IF Head(s) = " " THEN Fts5Tokens(Tail(s))
    ELSE IF Head(s) = DQ
    THEN LET r == ReadString(Tail(s), <<>>)
         IN  IF r.closed
             THEN <<[k |-> "string", v |-> r.v]>> \o Fts5Tokens(r.rest)
             ELSE <<[k |-> "error", v |-> r.v]>>
    ELSE IF IsWordChar(Head(s))
    THEN LET w == ReadWord(s)
         IN  <<[k |-> IF w = <<"OR">> THEN "operator" ELSE "bareword", v |-> w]>>
             \o Fts5Tokens(SubSeq(s, Len(w) + 1, Len(s)))
    ELSE <<[k |-> "syntax", v |-> <<Head(s)>>]>> \o Fts5Tokens(Tail(s))

QueryFunctions == {"search_statutes", "search_fts"}

InitQuery ==
    /\ \E fn \in QueryFunctions : \E query \in Queries :
          arg = [called |-> TRUE, fn |-> fn, query |-> query]
    /\ ret = NotCalled

\* search_statutes up to the match expression it hands to FTS5
BuildMatchStatutes ==
    /\ ret = NotCalled /\ arg.fn = "search_statutes"
    /\ ret' = [called |-> TRUE, safe_query |-> SafeQuery(arg.query)]
    /\ UNCHANGED arg
    /\ UNCHANGED <<embedVars, chunkVars>>

\* search_fts up to the match expression it hands to FTS5
BuildMatchFts ==
    /\ ret = NotCalled /\ arg.fn = "search_fts"
    /\ ret' = [called |-> TRUE, safe_query |-> SafeQuery(arg.query)]
    /\ UNCHANGED arg
    /\ UNCHANGED <<embedVars, chunkVars>>

NextQuery ==
    \/ BuildMatchStatutes
    \/ BuildMatchFts

InitQueryCall == InitQuery /\ InitEmbedIdle /\ InitChunkIdle

SpecQuery == InitQueryCall /\ [][NextQuery]_vars

\* C18: for every query string the match expression consists only of
\* quoted literal terms, one per term of the query: FTS5 reads no operator,
\* no syntax character and no bareword in it, and no string is left open.
C18_OnlyQuotedLiterals ==
    ret # NotCalled =>
        LET tokens == Fts5Tokens(ret.safe_query)
        IN  /\ \A k \in DOMAIN tokens : tokens[k].k = "string"
            /\ Len(tokens) = Len(Split(arg.query))

\* =====================================================================
\* The searches: search_statutes (rag/query_fl_statutes.py), search_fts,
\* search_semantic and the hybrid mode, as main runs them for the search
\* command (embed-statutes.py)
\* A record of the Store is described by its chapter, by whether the
\* lexical index matches the query on it (hit), and by the similarity of
\* its embedding to the query (NoEmbedding: the embedding is NULL). The
\* records stand in the order of their lexical rank for the query.
\* =====================================================================
MaxRows == 2

MaxLimit == 2

\* an Optional argument that is given
Some(v) == [some |-> v]

Chapters == {"90", "718"}

\* embedding IS NULL
NoEmbedding == 0 - 1

\* the similarities a query has to a stored vector: 0 and 1 stand for a
\* lower and a higher score
Similarities == 0..1

Row == [chapter : Chapters, hit : BOOLEAN, similarity : {NoEmbedding} \cup Similarities]

Stores == UNION {[1..n -> Row] : n \in 0..MaxRows}

ChapterFilters == {None, Some(""), Some("90")}

SearchModes == {"search_statutes", "search_fts", "search_semantic", "hybrid"}

\* the records of the Store with their ids, in rank order
WithIds(rows) == [k \in DOMAIN rows |-> [id |-> k, chapter |-> rows[k].chapter,
                                          hit |-> rows[k].hit,
                                          similarity |-> rows[k].similarity]]

\* LIMIT ? and scored[:limit]
Limit(list, limit) == SubSeq(list, 1, Min(limit, Len(list)))

\* variant that never takes the filtered branch
TruthyNever(opt) == FALSE

\* `if chapter_filter:` - None and the empty string are falsy
Truthy(opt) == opt # None /\ opt.some # ""

\* WHERE chunks_fts MATCH ? [AND c.chapter = ?] ORDER BY rank LIMIT ?
search_statutes(rows, limit, chapter_filter) ==
    LET Keep(r) == /\ r.hit
                   /\ Truthy(chapter_filter) => r.chapter = chapter_filter.some
    IN  Limit(SelectSeq(WithIds(rows), Keep), limit)

\* WHERE chunks_fts MATCH ? ORDER BY rank LIMIT ?
search_fts(rows, limit) ==
    LET Keep(r) == r.hit
    IN  Limit(SelectSeq(WithIds(rows), Keep), limit)

\* variant that lists the lowest scores first
RECURSIVE SortForward(_)
SortForward(S) ==
    IF S = {} THEN <<>>
    ELSE LET low == CHOOSE r \in S : \A o \in S :
                        \/ r.similarity < o.similarity
                        \/ o.similarity = r.similarity /\ r.id <= o.id
         IN  <<low>> \o SortForward(S \ {low})

\* scored.sort(reverse=True): by similarity, then by id, the largest first
RECURSIVE SortReverse(_)
SortReverse(S) ==
    IF S = {} THEN <<>>
    ELSE LET top == CHOOSE r \in S : \A o \in S :
                        \/ o.similarity < r.similarity
                        \/ o.similarity = r.similarity /\ o.id <= r.id
         IN  <<top>> \o SortReverse(S \ {top})

\* the records with an embedding, by similarity to the query; nothing when
\* the query got no embedding
search_semantic(rows, limit, query_embedding) ==
    IF ~query_embedding THEN <<>>
    ELSE LET all == WithIds(rows)
         IN  Limit(SortReverse({all[k] : k \in {m \in DOMAIN all :
                                                   all[m].similarity # NoEmbedding}}),
                   limit)

\* variant in which every mode takes a chapter filter
TakesChapterFilterAlways(fn) == TRUE

\* the modes whose signature has a chapter filter
TakesChapterFilter(fn) == fn = "search_statutes"

\* a call that hands a chapter filter to a mode without one is refused
\* (TypeError for the functions, exit 2 of the argument parser for main)
Refused == [called |-> TRUE, error |-> "refused", results |-> <<>>]

\* variant of main without the test that the database file exists: the
\* connection creates an empty file, which holds no records
NoDatabaseAsEmpty == [called |-> TRUE, error |-> "none", results |-> <<>>]

\* the Store's file does not exist: FileNotFoundError in search_statutes,
\* exit 1 with "Database ... not found" in main
NoDatabase == [called |-> TRUE, error |-> "no database", results |-> <<>>]

Results(list) == [called |-> TRUE, error |-> "none", results |-> list]

InitSearch ==
    /\ \E fn \in SearchModes : \E rows \in Stores : \E db_exists \in BOOLEAN :
       \E limit \in 1..MaxLimit : \E chapter_filter \in ChapterFilters :
       \E query_embedding \in BOOLEAN :
          \* a file that does not exist holds no records; only the semantic
          \* search asks for the query's embedding
          /\ ~db_exists => rows = <<>>
          /\ fn \in {"search_statutes", "search_fts"} => ~query_embedding
          /\ arg = [called |-> TRUE, fn |-> fn, db_exists |-> db_exists, rows |-> rows,
                    limit |-> limit, chapter_filter |-> chapter_filter,
                    query_embedding |-> query_embedding]
    /\ ret = NotCalled

CallSearchStatutes ==
    /\ ret = NotCalled /\ arg.fn = "search_statutes"
    /\ ret' = IF ~arg.db_exists
              THEN NoDatabase
              ELSE Results(search_statutes(arg.rows, arg.limit, arg.chapter_filter))
    /\ UNCHANGED arg
    /\ UNCHANGED <<embedVars, chunkVars>>

CallSearchFts ==
    /\ ret = NotCalled /\ arg.fn = "search_fts"
    /\ ret' = IF arg.chapter_filter # None /\ ~TakesChapterFilter(arg.fn)
              THEN Refused
              ELSE IF ~arg.db_exists THEN NoDatabase
              ELSE Results(search_fts(arg.rows, arg.limit))
    /\ UNCHANGED arg
    /\ UNCHANGED <<embedVars, chunkVars>>

CallSearchSemantic ==
    /\ ret = NotCalled /\ arg.fn = "search_semantic"
    /\ ret' = IF arg.chapter_filter # None /\ ~TakesChapterFilter(arg.fn)
              THEN Refused
              ELSE IF ~arg.db_exists THEN NoDatabase
              ELSE Results(search_semantic(arg.rows, arg.limit, arg.query_embedding))
    /\ UNCHANGED arg
    /\ UNCHANGED <<embedVars, chunkVars>>

\* main, --mode hybrid: the lexical results, then the semantic results
CallHybrid ==
    /\ ret = NotCalled /\ arg.fn = "hybrid"
    /\ ret' = IF arg.chapter_filter # None /\ ~TakesChapterFilter(arg.fn)
              THEN Refused
              ELSE IF ~arg.db_exists THEN NoDatabase
              ELSE Results(search_fts(arg.rows, arg.limit)
                           \o search_semantic(arg.rows, arg.limit, arg.query_embedding))
    /\ UNCHANGED arg
    /\ UNCHANGED <<embedVars, chunkVars>>

NextSearch ==
    \/ CallSearchStatutes
    \/ CallSearchFts
    \/ CallSearchSemantic
    \/ CallHybrid

InitSearchCall == InitSearch /\ InitEmbedIdle /\ InitChunkIdle

SpecSearch == InitSearchCall /\ [][NextSearch]_vars

\* ---- properties of the searches (under SpecSearch)
FilterGiven == arg.chapter_filter # None

\* every returned record has the chapter of the filter
OnlyFilterChapter ==
    \A k \in DOMAIN ret.results : ret.results[k].chapter = arg.chapter_filter.some

\* C19: when search_statutes is called with a chapter filter, every record
\* it returns has its chapter equal to the filter value.
C19_FilterRestrictsChapter ==
    (Returned("search_statutes") /\ FilterGiven) => OnlyFilterChapter

\* C19, amended: when search_statutes is called with a non-empty chapter
\* filter, every record it returns has its chapter equal to the filter
\* value; with the empty string as filter it returns the same records as
\* without a filter.
C19_NonEmptyFilterRestrictsChapter ==
    (Returned("search_statutes") /\ FilterGiven) =>
        IF arg.chapter_filter.some # ""
        THEN OnlyFilterChapter
        ELSE ret.results = Limit(SelectSeq(WithIds(arg.rows), LAMBDA r : r.hit), arg.limit)

\* the query matches a record of chapter 718, the filter is "90", and
\* search_statutes returned a record
C19_Witness ==
    /\ Returned("search_statutes")
    /\ arg.chapter_filter = Some("90")
    /\ \E k \in DOMAIN arg.rows : arg.rows[k].hit /\ arg.rows[k].chapter = "718"
    /\ ret.results # <<>>

\* C20: each of the modes lexical, semantic and hybrid accepts a chapter
\* filter and, when one is given, returns only records of that chapter.
C20_EveryModeFilters ==
    (ret # NotCalled /\ arg.db_exists /\ FilterGiven /\ arg.chapter_filter.some # "") =>
        (ret.error = "none" /\ OnlyFilterChapter)

\* C20, amended: only search_statutes takes a chapter filter. search_fts,
\* search_semantic and the hybrid mode refuse a call with one, and without
\* one their results are not restricted by chapter: the lexical results
\* are the first matching records, the semantic results are the records
\* with the highest similarity among those with an embedding.
C20_OnlySearchStatutesFilters ==
    (ret # NotCalled /\ arg.db_exists) =>
        IF arg.fn = "search_statutes"
        THEN /\ ret.error = "none"
             /\ (FilterGiven /\ arg.chapter_filter.some # "") => OnlyFilterChapter
        ELSE IF FilterGiven
        THEN ret.error = "refused" /\ ret.results = <<>>
        ELSE /\ ret.error = "none"
             /\ arg.fn = "search_fts" =>
                   \A k \in DOMAIN arg.rows :
                       (arg.rows[k].hit /\ Cardinality({m \in 1..k : arg.rows[m].hit}) <= arg.limit)
                           => \E j \in DOMAIN ret.results : ret.results[j].id = k
             /\ arg.fn = "search_semantic" =>
                   \A j \in DOMAIN ret.results : \A k \in DOMAIN arg.rows :
                       arg.rows[k].similarity > ret.results[j].similarity
                           => \E n \in DOMAIN ret.results : ret.results[n].id = k

\* a mode without a chapter filter returned records of two chapters
C20_Witness ==
    /\ ret # NotCalled
    /\ arg.fn \in {"search_fts", "search_semantic", "hybrid"}
    /\ ret.error = "none"
    /\ \E j \in DOMAIN ret.results : \E k \in DOMAIN ret.results :
          ret.results[j].chapter # ret.results[k].chapter

\* the records of the Store that have an embedding
Embedded(rows) == {k \in DOMAIN rows : rows[k].similarity # NoEmbedding}

\* C21: search_semantic returns records with an embedding only, the at
\* most `limit` highest-scoring of all of them, in non-increasing order of
\* similarity; without a query embedding it returns an empty list.
C21_SemanticTopScores ==
    (Returned("search_semantic") /\ ret.error = "none") =>
        LET got == {ret.results[j].id : j \in DOMAIN ret.results}
        IN  IF ~arg.query_embedding
            THEN ret.results = <<>>
            ELSE /\ got \subseteq Embedded(arg.rows)
                 /\ Len(ret.results) = Min(arg.limit, Cardinality(Embedded(arg.rows)))
                 /\ Cardinality(got) = Len(ret.results)
                 /\ \A j \in DOMAIN ret.results :
                       ret.results[j].similarity = arg.rows[ret.results[j].id].similarity
                 /\ \A j \in DOMAIN ret.results : \A n \in DOMAIN ret.results :
                       j < n => ret.results[j].similarity >= ret.results[n].similarity
                 /\ \A k \in Embedded(arg.rows) \ got : \A j \in DOMAIN ret.results :
                       arg.rows[k].similarity <= ret.results[j].similarity

\* the Store holds a record without embedding and a record with one, and
\* the search returned a record
C21_Witness ==
    /\ Returned("search_semantic") /\ ret.error = "none" /\ arg.query_embedding
    /\ \E k \in DOMAIN arg.rows : arg.rows[k].similarity = NoEmbedding
    /\ ret.results # <<>>

\* C23: a query against a Store whose file does not exist ends in the
\* 'no database' error and never in a result list; a lexical or semantic
\* query against an existing Store without records returns an empty list
\* without error.
C23_MissingIsNotEmpty ==
    (ret # NotCalled /\ ret.error # "refused") =>
        /\ ~arg.db_exists => ret.error = "no database"
        /\ (arg.db_exists /\ arg.rows = <<>>) => (ret.error = "none" /\ ret.results = <<>>)

\* a query ran into a missing file
C23_Witness ==
    /\ ret # NotCalled
    /\ ~arg.db_exists
    /\ ret.error = "no database"

\* =====================================================================
\* cosine_similarity (embed-statutes.py)
\* A Python float is described as k * H^s / sqrt(d): k a small integer, H a
\* power of two so large (2^600) that H * H overflows to infinity,
\* 1 / (H * H) underflows to zero and H^s + H^t is H^s for s > t. d is 1
\* except in square roots and quotients. The other floats are inf, -inf
\* (cls "inf", sign in k) and nan.
\* =====================================================================
Float(cls, k, s, d) == [cls |-> cls, k |-> k, s |-> s, d |-> d]

Fin(k, s) == Float("fin", k, s, 1)

FZero == Fin(0, 0)

FInf(sign) == Float("inf", sign, 0, 1)

FNaN == Float("nan", 0, 0, 1)

Sign(k) == IF k > 0 THEN 1 ELSE IF k < 0 THEN 0 - 1 ELSE 0

\* x * y
FMul(x, y) ==
    IF x.cls = "nan" \/ y.cls = "nan" THEN FNaN
    ELSE IF x.cls = "inf" \/ y.cls = "inf"
    THEN (IF x.k = 0 \/ y.k = 0 THEN FNaN ELSE FInf(Sign(x.k) * Sign(y.k)))
    ELSE IF x.k = 0 \/ y.k = 0 THEN FZero
    ELSE IF x.s + y.s > 1 THEN FInf(Sign(x.k) * Sign(y.k))
    ELSE IF x.s + y.s < 0 - 1 THEN FZero
    ELSE Fin(x.k * y.k, x.s + y.s)

\* x + y
FAdd(x, y) ==
    IF x.cls = "nan" \/ y.cls = "nan" THEN FNaN
    ELSE IF x.cls = "inf" /\ y.cls = "inf" THEN (IF x.k = y.k THEN x ELSE FNaN)
    ELSE IF x.cls = "inf" THEN x
    ELSE IF y.cls = "inf" THEN y
    ELSE IF x.k = 0 THEN y
    ELSE IF y.k = 0 THEN x
    ELSE IF x.s = y.s THEN (IF x.k + y.k = 0 THEN FZero ELSE Fin(x.k + y.k, x.s))
    ELSE IF x.s > y.s THEN x ELSE y

\* sum(...) of a list of floats
RECURSIVE FSum(_)
FSum(xs) == IF xs = <<>> THEN FZero ELSE FAdd(FSum(SubSeq(xs, 1, Len(xs) - 1)), xs[Len(xs)])

\* q ** 0.5 for a sum of squares q: 0, inf, or a finite k * H^0
FSqrt(q) ==
    IF q.cls = "fin" /\ q.k # 0 THEN Float("fin", 1, q.s, q.k) ELSE q

\* variant without the test for a zero norm
IsZeroNever(x) == FALSE

\* norm == 0
IsZero(x) == x.cls = "fin" /\ x.k = 0

\* norm_a * norm_b
FMulNorms(x, y) ==
    IF x.cls = "nan" \/ y.cls = "nan" THEN FNaN
    ELSE IF x.cls = "inf" \/ y.cls = "inf"
    THEN (IF x.k = 0 \/ y.k = 0 THEN FNaN ELSE FInf(1))
    ELSE IF x.k = 0 \/ y.k = 0 THEN FZero
    ELSE Float("fin", 1, 0, x.d * y.d)

\* the exception of a float division by zero
ZeroDivisionError == Float("ZeroDivisionError", 0, 0, 1)

\* dot / (norm_a * norm_b); a quotient whose square is 1 is 1.0 or -1.0
\* within floating tolerance
FDiv(x, y) ==
    IF y.cls = "fin" /\ y.k = 0 THEN ZeroDivisionError
    ELSE IF x.cls = "nan" \/ y.cls = "nan" THEN FNaN
    ELSE IF x.cls = "inf" THEN (IF y.cls = "inf" THEN FNaN ELSE x)
    ELSE IF y.cls = "inf" \/ x.k = 0 THEN FZero
    ELSE IF x.s = 0 /\ x.k * x.k = y.d THEN Fin(Sign(x.k), 0)
    ELSE Float("fin", x.k, x.s, y.d)

cosine_similarity(a, b) ==
    IF Len(a) # Len(b) THEN FZero
    ELSE LET dot == FSum([n \in DOMAIN a |-> FMul(a[n], b[n])])
             norm_a == FSqrt(FSum([n \in DOMAIN a |-> FMul(a[n], a[n])]))
             norm_b == FSqrt(FSum([n \in DOMAIN b |-> FMul(b[n], b[n])]))
         IN  IF IsZero(norm_a) \/ IsZero(norm_b) THEN FZero
             ELSE FDiv(dot, FMulNorms(norm_a, norm_b))

MaxDim == 2

\* the components of the input vectors: 0, 1, -1, 2, -2, H^-1 and H
Components ==
    {Fin(k, 0) : k \in (0 - 2)..2} \cup {Fin(1, s) : s \in {0 - 1, 1}}

Vectors == UNION {[1..n -> Components] : n \in 0..MaxDim}

InitCosine ==
    /\ \E a \in Vectors : \E b \in Vectors :
          arg = [called |-> TRUE, fn |-> "cosine_similarity", a |-> a, b |-> b]
    /\ ret = NotCalled

CallCosineSimilarity ==
    /\ ret = NotCalled
    /\ ret' = [called |-> TRUE, value |-> cosine_similarity(arg.a, arg.b)]
    /\ UNCHANGED arg
    /\ UNCHANGED <<embedVars, chunkVars>>

NextCosine == CallCosineSimilarity

InitCosineCall == InitCosine /\ InitEmbedIdle /\ InitChunkIdle

SpecCosine == InitCosineCall /\ [][NextCosine]_vars

\* a vector of zero magnitude: every component is 0 (the empty vector included)
ZeroVector(v) == \A n \in DOMAIN v : v[n] = FZero

Negated(v) == [n \in DOMAIN v |-> Fin(0 - v[n].k, v[n].s)]

\* C22: cosine_similarity returns 0, and raises nothing, whenever the two
\* vectors differ in length or one of them has zero magnitude, the empty
\* vector included.
C22_EdgeCasesScoreZero ==
    (Returned("cosine_similarity")
        /\ (Len(arg.a) # Len(arg.b) \/ ZeroVector(arg.a) \/ ZeroVector(arg.b)))
    => ret.value = FZero

C22_Witness ==
    /\ Returned("cosine_similarity")
    /\ Len(arg.a) = Len(arg.b)
    /\ arg.a # <<>>
    /\ ZeroVector(arg.a)
    /\ ~ZeroVector(arg.b)
    /\ ret.value = FZero

\* C25: the cosine of a non-zero vector with itself is 1.0, with its negation
\* -1.0, and with the zero vector of the same length 0.
C25_UnitCosines ==
    (Returned("cosine_similarity") /\ ~ZeroVector(arg.a))
    => /\ arg.b = arg.a => ret.value = Fin(1, 0)
       /\ arg.b = Negated(arg.a) => ret.value = Fin(0 - 1, 0)
       /\ (Len(arg.b) = Len(arg.a) /\ ZeroVector(arg.b)) => ret.value = FZero

\* =====================================================================
\* Further properties of embed_chunks and the Store (under SpecEmbed)
\* =====================================================================
OneRowPerId(db) == \A r \in db.rows : \A q \in db.rows : r.id = q.id => r = q

\* the step is the write of one record (lines 320-334)
IsWrite == pc = "insert" /\ i' = i + 1

\* the step starts a run
IsStart == runs' = runs + 1

\* C24: the primary table never holds two rows with one id; a write puts in
\* place of whatever row held the id one row whose columns all come from
\* this write, and leaves every other row as it was; no other step alters a
\* row.
C24_WholeRowWrites ==
    [][/\ OneRowPerId(conn') /\ OneRowPerId(disk')
       /\ IsWrite =>
             LET id  == ChunkId(batch_start + i)
                 new == [rowid |-> NewRowid(conn), id |-> id,
                         embedding |-> EmbeddingBlob(skip_embeddings, batch_embeddings, i)]
             IN  /\ conn'.rows = {r \in conn.rows : r.id # id} \cup {new}
                 /\ disk'.rows = disk.rows
       /\ ~IsWrite => /\ conn'.rows \in {conn.rows, disk.rows, {}}
                      /\ disk'.rows \in {conn.rows, disk.rows, {}}]_vars

\* a run has written again a record that was stored with an embedding
C24_Witness ==
    /\ pc = "insert"
    /\ \E idx \in SeqToSet(inserted) :
          /\ ChunkId(idx) \in embedded_at_start
          /\ EmbeddingOf(conn, ChunkId(idx)) = NULL

\* C27: every record with an embedding in the Store when a resumed run starts
\* still has one when the run ends, whether the service was unreachable at
\* the probe or failed for some batches.
C27_ResumeKeepsEmbeddings ==
    (resume /\ pc = "done" /\ (~skip_embeddings \/ probe = "url_error")) =>
        \A id \in embedded_at_start : EmbeddingOf(disk, id) = VEC

\* C30: a run started without resume on a Store with rows whose prompt is
\* declined leaves the Store as it was, probes nothing, requests nothing and
\* ends there; only a confirmed prompt removes rows, and the removal is
\* committed before anything is inserted.
C30_DeclinedLeavesStore ==
    [][/\ (IsStart /\ pc' = "declined") =>
             /\ disk' = disk /\ conn' = disk
             /\ probe' = "none" /\ requests' = <<>> /\ inserted' = <<>>
       /\ pc = "declined" => IsStart
       /\ (IsStart /\ ~resume' /\ CountAll(disk) > 0 /\ pc' # "declined") =>
             /\ disk'.rows = {} /\ conn' = disk' /\ inserted' = <<>>
       /\ (\E r \in disk.rows : \A q \in disk'.rows : q.id # r.id) =>
             (IsStart /\ ~resume' /\ pc' # "declined")]_vars

\* the prompt was declined on a Store that holds records
C30_Witness == pc = "declined" /\ CountAll(disk) > 0 /\ conn = disk

\* =====================================================================
\* embed_chunks repeated with resume=True against a healthy service.
\* After up to MaxRuns runs in which anything may happen, the service
\* stays healthy (runs > MaxRuns): the probe and every request succeed
\* in full, the process is not killed, and the operator starts the next
\* run with resume=True whenever a run is over.
\* =====================================================================
HealthyPhase == runs > MaxRuns

\* Rowids grow with every replaced row and the lexical index with them;
\* neither is read by the resume cursor or decides an embedding. Here the
\* Store is kept with the rowids renumbered by id and the index rebuilt, so
\* that a Store with the same ids and embeddings is the same state.
Canonical(db) ==
    LET rows == {[rowid |-> r.id + 1, id |-> r.id, embedding |-> r.embedding] : r \in db.rows}
    IN  [rows |-> rows, fts |-> SetToBag({FtsEntry(r) : r \in rows})]

\* lines 231-250 with resume=True, skip_embeddings=False
HealthyResume ==
    /\ ~Running
    /\ runs' = MaxRuns + 1
    /\ resume' = TRUE
    /\ skip_embeddings' = FALSE
    /\ conn' = Canonical(disk)
    /\ disk' = Canonical(disk)
    /\ start_index' = ResumeIndex(disk)
    /\ batch_start' = ResumeIndex(disk)
    /\ pc' = "probe"
    /\ i' = 0
    /\ batch_embeddings' = <<>>
    /\ embedded_count' = 0
    /\ requests' = <<>>
    /\ inserted' = <<>>
    /\ probe' = "none"
    /\ embedded_at_start' = EmbeddedIds(disk)
    /\ UNCHANGED <<total_chunks, batch_size, commit_interval, healthy, crashes>>
    /\ UNCHANGED <<chunkVars, callVars>>

\* lines 264-276, the service answers
HealthyProbe == HealthyPhase /\ Probe("ok")

\* lines 285-300, every request answered with one embedding per text
HealthyEmbedBatch ==
    /\ HealthyPhase
    /\ pc = "batch" /\ batch_start < total_chunks
    /\ LET bs == RequestBatchSize(batch_size)
           n  == Len(batch_chunks)
           resps == [k \in 1..NumRequests(n, bs) |->
                        [kind |-> "ok", n |-> Min(bs, n - (k - 1) * bs)]]
           out == get_ollama_embeddings_batch(batch_chunks, bs, resps)
       IN  /\ batch_embeddings' = out.all_embeddings
           /\ requests' = requests \o out.requests
           /\ pc' = "insert"
    /\ i' = 0
    /\ UNCHANGED <<total_chunks, batch_size, commit_interval, resume, skip_embeddings,
                   conn, disk, start_index, batch_start, embedded_count, inserted,
                   probe, embedded_at_start, healthy, crashes, runs>>
    /\ UNCHANGED <<chunkVars, callVars>>

\* Step 3, one record (lines 303-334)
HealthyInsertRecord ==
    /\ pc = "insert" /\ i < Len(batch_chunks)
    /\ LET global_idx == batch_start + i
           blob == EmbeddingBlob(skip_embeddings, batch_embeddings, i)
       IN  /\ conn' = Canonical(InsertOrReplace(conn, ChunkId(global_idx), blob))
           /\ embedded_count' = embedded_count + (IF blob # NULL THEN 1 ELSE 0)
           /\ inserted' = Append(inserted, global_idx)
    /\ i' = i + 1
    /\ UNCHANGED <<total_chunks, batch_size, commit_interval, resume, skip_embeddings,
                   disk, pc, start_index, batch_start, batch_embeddings, requests,
                   probe, embedded_at_start, healthy, crashes, runs>>
    /\ UNCHANGED <<chunkVars, callVars>>

HealthyStore == HealthyPhase /\ (HealthyInsertRecord \/ CommitStep \/ Finish)

EarlierRuns == ~HealthyPhase /\ NextEmbed

NextResume ==
    \/ EarlierRuns
    \/ HealthyResume
    \/ HealthyProbe
    \/ HealthyEmbedBatch
    \/ HealthyStore

\* a run that can go on does go on, and a run that is over is followed by
\* the next one
SpecResume ==
    /\ InitEmbedRuns
    /\ [][NextResume]_vars
    /\ WF_vars(HealthyResume)
    /\ WF_vars(HealthyProbe)
    /\ WF_vars(HealthyEmbedBatch)
    /\ WF_vars(HealthyStore)

EveryRecordEmbedded ==
    \A idx \in 0..(total_chunks - 1) : EmbeddingOf(disk, ChunkId(idx)) = VEC

\* C26: once the service is healthy for good, repeated runs with
\* resume=True eventually leave every input record with an embedding in the
\* Store, whatever failed or crashed in the earlier runs.
C26_ResumeEventuallyEmbedsAll == HealthyPhase ~> EveryRecordEmbedded

\* =====================================================================
\* Further properties of chunk_statutes (under SpecChunk)
\* =====================================================================
\* C28: at every point of the run parsed_sections is the number of chunks
\* accumulated and the number of accepted section numbers, the chunks'
\* ids are pairwise distinct, and the chunks are in the order of their
\* blocks.
C28_ChunksMatchCounters ==
    /\ stats.parsed_sections = Len(chunks)
    /\ Len(chunks) = Cardinality(seen_sections)
    /\ seen_sections = {chunks[j].section : j \in DOMAIN chunks}
    /\ \A j \in DOMAIN chunks : \A k \in DOMAIN chunks :
          /\ j # k => chunks[j].id # chunks[k].id
          /\ j < k => chunks[j].content < chunks[k].content

\* two chunks are accumulated and more blocks are to come or were dropped
C28_Witness ==
    /\ Len(chunks) = 2
    /\ chunks[1].content = 0
    /\ chunks[1].id # chunks[2].id

\* =====================================================================
\* format_for_rag (query_fl_statutes.py)
\* A result is described by the lengths of its snippet and of its content;
\* a result of search_statutes has both, any other dict may lack the
\* snippet. The output is the list output_lines, joined by line feeds.
\* =====================================================================
NoSnippet == 0 - 1

SnippetFallback == 500

CharsPerToken == 4

MaxResults == 3

Result == [snippet : {NoSnippet, 8}, content : {0, 8, 600}]

ResultLists == UNION {[1..n -> Result] : n \in 0..MaxResults}

TokenLimits == {0, 2, 4, 125, 150}

\* len(text) for the text chosen at lines 131-134
TextLength(result, include_full_content) ==
    IF include_full_content THEN result.content
    ELSE IF result.snippet # NoSnippet THEN result.snippet
    ELSE Min(result.content, SnippetFallback)

entry_tokens(result, include_full_content) ==
    TextLength(result, include_full_content) \div CharsPerToken

Line(kind, n) == [kind |-> kind, n |-> n]

\* "No matching Florida statutes found for this query."
NoMatchingMessage == Line("no matching statutes", 0)

\* "[n additional results truncated due to token limit]"
TruncationNote(n) == Line("truncated", n)

\* "[n] citation - title", the text
Entry(n) == Line("entry", n)

\* variant that applies the limit to the first result as well
AfterFirstAlways(n) == TRUE

\* i > 1
AfterFirst(n) == n > 1

\* the loop from result n on, with total_tokens so far
RECURSIVE FormatFrom(_, _, _, _, _)
FormatFrom(results, n, total_tokens, max_tokens, include_full_content) ==
    IF n > Len(results) THEN <<>>
    ELSE LET tokens == entry_tokens(results[n], include_full_content)
         IN  IF total_tokens + tokens > max_tokens /\ AfterFirst(n)
             THEN <<TruncationNote(Len(results) - n + 1)>>
             ELSE <<Entry(n)>> \o FormatFrom(results, n + 1, total_tokens + tokens,
                                             max_tokens, include_full_content)

format_for_rag(results, max_tokens, include_full_content) ==
    IF results = <<>> THEN <<NoMatchingMessage>>
    ELSE FormatFrom(results, 1, 0, max_tokens, include_full_content)

InitFormat ==
    /\ \E results \in ResultLists : \E max_tokens \in TokenLimits :
       \E include_full_content \in BOOLEAN :
          arg = [called |-> TRUE, fn |-> "format_for_rag", results |-> results,
                 max_tokens |-> max_tokens, include_full_content |-> include_full_content]
    /\ ret = NotCalled

CallFormatForRag ==
    /\ ret = NotCalled
    /\ ret' = [called |-> TRUE,
               output_lines |-> format_for_rag(arg.results, arg.max_tokens,
                                               arg.include_full_content)]
    /\ UNCHANGED arg
    /\ UNCHANGED <<embedVars, chunkVars>>

NextFormat == CallFormatForRag

InitFormatCall == InitFormat /\ InitEmbedIdle /\ InitChunkIdle

SpecFormat == InitFormatCall /\ [][NextFormat]_vars

\* the estimated tokens of the first k results
RECURSIVE TokensUpTo(_)
TokensUpTo(k) ==
    IF k = 0 THEN 0
    ELSE TokensUpTo(k - 1) + entry_tokens(arg.results[k], arg.include_full_content)

\* the later results that would push the running total above max_tokens
OverLimit == {k \in 2..Len(arg.results) : TokensUpTo(k) > arg.max_tokens}

\* the number of results to emit
Emitted == IF OverLimit = {} THEN Len(arg.results) ELSE SetMin(OverLimit) - 1

\* C29: format_for_rag emits the results in rank order, the first one
\* always, up to the first later result whose estimated tokens would push
\* the running total above max_tokens; then comes exactly one truncation
\* note with the number of results not emitted; an empty list gives the
\* fixed message.
C29_EmitsUntilLimit ==
    Returned("format_for_rag") =>
        IF arg.results = <<>>
        THEN ret.output_lines = <<NoMatchingMessage>>
        ELSE /\ Emitted >= 1
             /\ \A k \in 1..Emitted : ret.output_lines[k] = Entry(k)
             /\ IF Emitted < Len(arg.results)
                THEN /\ Len(ret.output_lines) = Emitted + 1
                     /\ ret.output_lines[Emitted + 1] =
                            TruncationNote(Len(arg.results) - Emitted)
                ELSE Len(ret.output_lines) = Emitted

\* the first result alone exceeds the limit and is emitted, the second one
\* fits no more, and two results are left out
C29_Witness ==
    /\ Returned("format_for_rag")
    /\ Len(arg.results) = 3
    /\ entry_tokens(arg.results[1], arg.include_full_content) > arg.max_tokens
    /\ ret.output_lines = <<Entry(1), TruncationNote(2)>>

====
